---- MODULE Spec2Model ----
(***************************************************************************)
(* Model of src/main.cpp: the CircularBuffer shared by the generator       *)
(* thread started by Audio::play and the audio callback, together with     *)
(* Audio's start / play / teardown sequence as driven by main, and the     *)
(* Synth's Sequencer and SawTooth oscillator.                              *)
(*                                                                         *)
(* Samples are abstracted to identities: 0 is the value the backing store  *)
(* is constructed with (and the value of a zero-filled sample), k >= 1 is  *)
(* the k-th sample produced by make_sound, and Junk is the content of an   *)
(* output buffer the callback has not written yet.                         *)
(***************************************************************************)
EXTENDS Integers, Sequences, FiniteSets, TLC

\* Block size (buffer_size, 1024 in the source), scaled down.
buffer_size == 2
\* The generator produces at most MaxBlocks blocks in the bounded specifications.
MaxBlocks == 3
\* The device invokes the callback at most MaxCallbacks times in the bounded specifications.
MaxCallbacks == 3

\* Audio::play is called at most MaxPlays times in PlaySpec.
MaxPlays == 3

\* Sequencer::tick is called at most MaxTicks times in SeqSpec.
MaxTicks == 4

\* SawTooth::tick is called at most MaxSawTicks times in SawSpec.
MaxSawTicks == 2

\* content of an output buffer before the callback writes it
Junk == 0 - 1

VARIABLES
    samples,      \* CircularBuffer::samples, a function on 0 .. size-1
    write_a,      \* CircularBuffer::write_a
    read_a,       \* CircularBuffer::read_a
    first,        \* CircularBuffer::first
    quit,         \* Audio::quit
    mutex,        \* Audio::mutex: "free", "gen" or "main"
    waiting,      \* the generator is blocked inside cv.wait and not yet notified
    thread,       \* Audio::thread: "none", "joinable" or "joined"
    dev,          \* Audio::dev: "none", "open", "failed" or "closed"
    m_pc,         \* position of main
    g_pc,         \* position of the generator thread
    g_data,       \* the generator's scratch block `data`
    g_call,       \* 1: copy_in of the whole block, 2: copy_in of the shortfall
    g_off,        \* offset of src in data for the current copy_in
    g_count,      \* count argument of the current copy_in
    g_read,       \* copy_in's local `read`
    g_write,      \* copy_in's local `write`
    g_count_in,   \* copy_in's local `count_in`
    g_ret,        \* value returned by the last copy_in
    g_left,       \* the generator's local `left`
    should_quit,  \* the generator's local `should_quit`
    cb_pc,        \* position of the audio callback
    cb_read,      \* copy_out's local `read`
    cb_write,     \* copy_out's local `write`
    cb_count_out, \* copy_out's local `count_out`
    cb_left,      \* the callback's local `left`
    stream,       \* the callback's output buffer, a function on 0 .. count-1
    nblocks,      \* number of blocks produced by make_sound
    ncallbacks,   \* number of callback invocations
    written,      \* history: identities copied in, in cursor order
    delivered,    \* history: values copied out, in cursor order
    calls,        \* history: the most recent calls of the buffer's interface
    plays,        \* history: calls of Audio::play and generator threads started
    sample,       \* Sequencer::sample
    ticks,        \* history of Sequencer::tick: for each call the counter before
                  \* it, the count passed and the note returned
    tuning_v,     \* SawTooth::tuning_v, in hundredths
    tuning,       \* SawTooth::tuning, in thousandths
    last,         \* SawTooth::last, in units of 1 / samples_per_sec
    wave,         \* the block SawTooth::tick wrote, a function on 0 .. count-1
    saw           \* history: the number of calls of SawTooth::tick, and the
                  \* arguments and the oscillator's state at the last call

bufvars  == <<samples, write_a, read_a, first>>
syncvars == <<quit, mutex, waiting, thread, dev>>
genvars  == <<g_pc, g_data, g_call, g_off, g_count, g_read, g_write, g_count_in,
              g_ret, g_left, should_quit>>
cbvars   == <<cb_pc, cb_read, cb_write, cb_count_out, cb_left, stream>>
histvars == <<nblocks, ncallbacks, written, delivered, calls>>
seqvars  == <<sample, ticks>>
sawvars  == <<tuning_v, tuning, last, wave, saw>>
dspvars  == <<seqvars, sawvars>>
vars     == <<bufvars, syncvars, genvars, cbvars, histvars, m_pc, plays, dspvars>>

Min(a, b) == IF a < b THEN a ELSE b
Max(a, b) == IF a > b THEN a ELSE b

\* samples.size()
Size(s) == Cardinality(DOMAIN s)

\* CircularBuffer(size): a value-initialised vector
NewSamples(size) == [i \in 0 .. size - 1 |-> 0]

\* Elements 0 .. n-1 of the array a, as a sequence
Prefix(a, n) == [i \in 1 .. n |-> a[i - 1]]

(***************************************************************************)
(* CircularBuffer::copy_out                                                *)
(***************************************************************************)
\* count_out, from the cursor snapshot
CopyOutCount(read, write, count, size) ==
    IF read < write
    THEN Min(count, write - read)
    ELSE LET size1 == Min(size - read, count)
             size2 == Max(0, Min(count - size1, write))
         IN  size1 + size2

\* index of the backing store that element i of dest is copied from
CopyOutIndex(read, write, count, size, i) ==
    IF read < write
    THEN read + i
    ELSE LET size1 == Min(size - read, count)
         IN  IF i < size1 THEN read + i ELSE i - size1

\* the set of indices copy_out reads
CopyOutRange(read, write, count, size) ==
    { CopyOutIndex(read, write, count, size, i) :
        i \in 0 .. CopyOutCount(read, write, count, size) - 1 }

\* dest after the copies: the first count_out elements are overwritten
CopyOutDest(s, dest, read, write, count) ==
    LET n == CopyOutCount(read, write, count, Size(s))
    IN  [i \in DOMAIN dest |->
            IF i < n THEN s[CopyOutIndex(read, write, count, Size(s), i)]
                     ELSE dest[i]]

\* the cursor update of copy_out without the reduction modulo the size
CopyOutCursorNoWrap(read, count_out, size) == read + count_out

\* read_a = (read + count_out) % samples.size()
CopyOutCursor(read, count_out, size) == (read + count_out) % size

(***************************************************************************)
(* CircularBuffer::copy_in                                                 *)
(***************************************************************************)
\* copy_in without the second span: the copy stops at the end of the store
CopyInCountNoWrap(f, read, write, count, size) ==
    IF f THEN Min(count, size)
    ELSE IF read > write THEN Min(count, read - write)
    ELSE IF read < write THEN Min(size - write, count)
    ELSE 0

CopyInCount(f, read, write, count, size) ==
    IF f THEN Min(count, size)
    ELSE IF read > write THEN Min(count, read - write)
    ELSE IF read < write
         THEN LET size1 == Min(size - write, count)
                  size2 == Max(0, Min(count - size1, read))
              IN  size1 + size2
         ELSE 0

\* index of the backing store that element i of src is copied to
CopyInIndex(f, read, write, count, size, i) ==
    IF f \/ read > write
    THEN write + i
    ELSE LET size1 == Min(size - write, count)
         IN  IF i < size1 THEN write + i ELSE i - size1

\* the set of indices copy_in writes
CopyInRange(f, read, write, count, size) ==
    { CopyInIndex(f, read, write, count, size, i) :
        i \in 0 .. CopyInCount(f, read, write, count, size) - 1 }

\* the backing store after the copies; src is a function on 0 .. count-1
CopyInStore(s, src, f, read, write, count) ==
    LET n == CopyInCount(f, read, write, count, Size(s))
        From(j) == CHOOSE i \in 0 .. n - 1 :
                       CopyInIndex(f, read, write, count, Size(s), i) = j
    IN  [j \in DOMAIN s |->
            IF j \in CopyInRange(f, read, write, count, Size(s))
            THEN src[From(j)] ELSE s[j]]

\* write_a = (write + count_in) % samples.size()
CopyInCursor(write, count_in, size) == (write + count_in) % size

\* CircularBuffer::has_space
has_space == write_a /= read_a


(***************************************************************************)
(* Sequencer.  Frequencies are in tenths of a hertz, so that the pattern's *)
(* 698.5, 554.4 and 830.6 are integers.  The counts used here keep         *)
(* sample + count far below the width of size_t.                           *)
(***************************************************************************)
samples_per_sec == 44100

bpm == 138 * 4

pattern == <<4400, 0, 6985, 4000, 5544, 6985, 8306, 5544>>

\* the beat length rounded up instead of truncated
beat_length_up == (60 * samples_per_sec + bpm - 1) \div bpm

\* auto beat_length = 60 * samples_per_sec / bpm (unsigned division)
beat_length == (60 * samples_per_sec) \div bpm

\* auto pattern_length = beat_length * 8
pattern_length == beat_length * 8

\* auto note = pattern[sample / beat_length], with the counter s
TickNote(s) == pattern[(s \div beat_length) + 1]

\* the counter update of tick reducing modulo the length of one beat
TickSampleBeat(s, count) == (s + count) % beat_length

\* the counter update of tick without the reduction modulo pattern_length
TickSampleNoWrap(s, count) == s + count

\* sample = (sample + count) % pattern_length
TickSample(s, count) == (s + count) % pattern_length

\* tick returning the note at the counter it has advanced to
SequencerTickNoteAfter(count) ==
    /\ sample' = TickSample(sample, count)
    /\ ticks' = [before |-> Append(ticks.before, sample),
                 counts |-> Append(ticks.counts, count),
                 notes  |-> Append(ticks.notes, TickNote(TickSample(sample, count)))]

\* Sequencer::tick(count); the note returned is appended to ticks.notes
SequencerTick(count) ==
    /\ sample' = TickSample(sample, count)
    /\ ticks' = [before |-> Append(ticks.before, sample),
                 counts |-> Append(ticks.counts, count),
                 notes  |-> Append(ticks.notes, TickNote(sample))]

\* a Sequencer whose counter is s
SequencerInit(s) ==
    /\ sample = s
    /\ ticks = [before |-> <<>>, counts |-> <<>>, notes |-> <<>>]

(***************************************************************************)
(* SawTooth, in fixed point.  The phase (value, last, delta) is counted in *)
(* units of 1 / samples_per_sec, so 1.0 is samples_per_sec units and       *)
(* delta = 2.0 / (samples_per_sec / freq) is twice the frequency in hertz. *)
(* tuning is counted in thousandths and tuning_v in hundredths.  Products  *)
(* are truncated where the source rounds to the nearest float.             *)
(***************************************************************************)
\* std::clamp
Clamp(v, lo, hi) == IF v < lo THEN lo ELSE IF hi < v THEN hi ELSE v

\* conversion of a float to int16_t: the fraction is dropped
Trunc(a, b) == IF a >= 0 THEN a \div b ELSE 0 - ((0 - a) \div b)

\* if (value > 1.0) { value -= 2.0; }
SawWrap(v) == IF v > samples_per_sec THEN v - 2 * samples_per_sec ELSE v

\* tuning = std::clamp(tuning * tuning_v, 0.1f, 1000.0f)
SawTuning(tun, tv) == Clamp((tun * tv) \div 100, 100, 1000000)

\* delta for a sounding note (in tenths of a hertz): freq is clamped to
\* 10 .. 10000 Hz, period = samples_per_sec / freq, delta = 2.0 / period
SawDelta(tun, note) == Clamp((tun * note) \div 1000, 100, 100000) \div 5

\* value at the top of iteration i of the loop, starting from v
RECURSIVE SawValue(_, _, _)
SawValue(v, delta, i) ==
    IF i = 0 THEN v ELSE SawWrap(SawValue(v, delta, i - 1) + delta)

\* data[i] = value * volume * scale, volume 0.25 and scale SHRT_MAX
SawSample(v) == Trunc(v * 32767, 4 * samples_per_sec)

\* tick applying the tuning control on every block, silent or not
SawToothTickAlways(note, count) ==
    LET tun   == SawTuning(tuning, tuning_v)
        delta == IF note /= 0 THEN SawDelta(tun, note) ELSE 0
        value == IF note /= 0 THEN SawWrap(last + delta) ELSE last
    IN  /\ tuning' = tun
        /\ wave' = [i \in 0 .. count - 1 |-> SawSample(SawValue(value, delta, i))]
        /\ last' = SawValue(value, delta, count)
        /\ saw' = [n |-> saw.n + 1, note |-> note, count |-> count,
                   last |-> last, tuning |-> tuning]
        /\ UNCHANGED tuning_v

\* SawTooth::tick(note, data, count); wave is what it writes to data
SawToothTick(note, count) ==
    LET tun   == IF note /= 0 THEN SawTuning(tuning, tuning_v) ELSE tuning
        delta == IF note /= 0 THEN SawDelta(tun, note) ELSE 0
        value == IF note /= 0 THEN SawWrap(last + delta) ELSE last
    IN  /\ tuning' = tun
        /\ wave' = [i \in 0 .. count - 1 |-> SawSample(SawValue(value, delta, i))]
        /\ last' = SawValue(value, delta, count)
        /\ saw' = [n |-> saw.n + 1, note |-> note, count |-> count,
                   last |-> last, tuning |-> tuning]
        /\ UNCHANGED tuning_v

\* SawTooth's member initialisers
SawToothInit ==
    /\ tuning_v = 100 /\ tuning = 1000 /\ last = 0
    /\ wave = <<>>
    /\ saw = [n |-> 0, note |-> 0, count |-> 0, last |-> 0, tuning |-> 1000]

(***************************************************************************)
(* Initial state: Audio() constructed by createAudio, nothing started.     *)
(***************************************************************************)
AudioInit ==
    /\ samples = NewSamples(buffer_size * 2)
    /\ write_a = 0 /\ read_a = 0 /\ first = TRUE
    /\ quit = FALSE /\ mutex = "free" /\ waiting = FALSE
    /\ thread = "none" /\ dev = "none"
    /\ m_pc = "start"
    /\ g_pc = "none"
    /\ g_data = [i \in 0 .. buffer_size - 1 |-> 0]
    /\ g_call = 0 /\ g_off = 0 /\ g_count = 0
    /\ g_read = 0 /\ g_write = 0 /\ g_count_in = 0 /\ g_ret = 0 /\ g_left = 0
    /\ should_quit = FALSE
    /\ cb_pc = "idle"
    /\ cb_read = 0 /\ cb_write = 0 /\ cb_count_out = 0 /\ cb_left = 0
    /\ stream = [i \in 0 .. buffer_size - 1 |-> Junk]
    /\ nblocks = 0 /\ ncallbacks = 0
    /\ written = <<>> /\ delivered = <<>> /\ calls = <<>>
    /\ plays = [calls |-> 0, threads |-> 0]

\* Audio with its Synth
Init == AudioInit /\ SequencerInit(0) /\ SawToothInit

(***************************************************************************)
(* The generator thread: the lambda of Audio::play.                        *)
(* track = TRUE keeps the histories and stops at the bounds; track = FALSE *)
(* runs forever: every block reuses the identities of the first one and    *)
(* the histories are left alone.                                           *)
(***************************************************************************)
\* identity of sample i of block b
SampleId(b, i) == (b - 1) * buffer_size + i + 1

\* the src argument of the current copy_in: data.data() + g_off
GenSrc == [i \in 0 .. g_count - 1 |-> g_data[g_off + i]]

\* synth.make_sound(data.data(), data.size()), then the call copy_in(data, size).
\* make_sound ticks the sequencer and the oscillator; the low-pass filter
\* changes sample values only, and in data the samples are represented by
\* their identities.
MakeSound(track) ==
    /\ g_pc = "make_sound"
    /\ track => nblocks < MaxBlocks
    /\ nblocks' = IF track THEN nblocks + 1 ELSE 1
    /\ IF track
       THEN SequencerTick(buffer_size) /\ SawToothTick(TickNote(sample), buffer_size)
       ELSE UNCHANGED dspvars
    /\ g_data' = [i \in 0 .. buffer_size - 1 |-> SampleId(nblocks', i)]
    /\ g_call' = 1 /\ g_off' = 0 /\ g_count' = buffer_size
    /\ g_pc' = "in_snap"
    /\ UNCHANGED <<plays, bufvars, syncvars, cbvars, m_pc, ncallbacks, written,
                   delivered, calls, g_read, g_write, g_count_in, g_ret, g_left,
                   should_quit>>

\* copy_in: size_t read = read_a; size_t write = write_a;
GenSnapshot ==
    /\ g_pc = "in_snap"
    /\ g_read' = read_a /\ g_write' = write_a
    /\ g_pc' = "in_copy"
    /\ UNCHANGED <<plays, dspvars, bufvars, syncvars, cbvars, histvars, m_pc,
                   g_data, g_call, g_off, g_count, g_count_in, g_ret, g_left, should_quit>>

\* copy_in: the branch on first / read / write and its std::copy calls
GenCopy ==
    /\ g_pc = "in_copy"
    /\ g_count_in' = CopyInCount(first, g_read, g_write, g_count, Size(samples))
    /\ samples' = CopyInStore(samples, GenSrc, first, g_read, g_write, g_count)
    /\ first' = FALSE
    /\ g_pc' = "in_pub"
    /\ UNCHANGED <<plays, dspvars, write_a, read_a, syncvars, cbvars, histvars, m_pc,
                   g_data, g_call, g_off, g_count, g_read, g_write, g_ret, g_left,
                   should_quit>>

\* copy_in: write_a = (write + count_in) % size; return count - count_in;
\* then the caller: auto left = ...; if (left) / the end of the locked scope
GenPublish(track) ==
    /\ g_pc = "in_pub"
    /\ write_a' = CopyInCursor(g_write, g_count_in, Size(samples))
    /\ g_ret' = g_count - g_count_in
    /\ written' = IF track THEN written \o Prefix(GenSrc, g_count_in) ELSE written
    /\ IF g_call = 1
       THEN /\ g_left' = g_ret'
            /\ g_pc' = IF g_ret' /= 0 THEN "lock" ELSE "check_quit"
       ELSE /\ g_left' = g_left
            /\ g_pc' = "unlock"
    /\ UNCHANGED <<plays, dspvars, samples, read_a, first, syncvars, cbvars, m_pc, nblocks, ncallbacks,
                   delivered, calls, g_data, g_call, g_off, g_count, g_read, g_write,
                   g_count_in, should_quit>>

\* std::unique_lock lock(mutex);
GenLock ==
    /\ g_pc = "lock"
    /\ mutex = "free"
    /\ mutex' = "gen"
    /\ g_pc' = "pred"
    /\ UNCHANGED <<plays, dspvars, bufvars, quit, waiting, thread, dev, cbvars, histvars, m_pc,
                   g_data, g_call, g_off, g_count, g_read, g_write, g_count_in, g_ret,
                   g_left, should_quit>>

\* cv.wait(lock, pred): the evaluation of quit || buffer.has_space()
GenPred ==
    /\ g_pc = "pred"
    /\ g_pc' = IF quit \/ has_space THEN "after" ELSE "block"
    /\ UNCHANGED <<plays, dspvars, bufvars, syncvars, cbvars, histvars, m_pc,
                   g_data, g_call, g_off, g_count, g_read, g_write, g_count_in, g_ret,
                   g_left, should_quit>>

\* cv.wait(lock): release the mutex and block, atomically
GenBlock ==
    /\ g_pc = "block"
    /\ mutex' = "free"
    /\ waiting' = TRUE
    /\ g_pc' = "blocked"
    /\ UNCHANGED <<plays, dspvars, bufvars, quit, thread, dev, cbvars, histvars, m_pc,
                   g_data, g_call, g_off, g_count, g_read, g_write, g_count_in, g_ret,
                   g_left, should_quit>>

\* cv.wait(lock): unblocked by a notify
GenWake ==
    /\ g_pc = "blocked"
    /\ ~waiting
    /\ g_pc' = "relock"
    /\ UNCHANGED <<plays, dspvars, bufvars, syncvars, cbvars, histvars, m_pc,
                   g_data, g_call, g_off, g_count, g_read, g_write, g_count_in, g_ret,
                   g_left, should_quit>>

\* cv.wait(lock): a spurious wakeup
GenSpuriousWake ==
    /\ g_pc = "blocked"
    /\ waiting
    /\ waiting' = FALSE
    /\ g_pc' = "relock"
    /\ UNCHANGED <<plays, dspvars, bufvars, quit, mutex, thread, dev, cbvars, histvars, m_pc,
                   g_data, g_call, g_off, g_count, g_read, g_write, g_count_in, g_ret,
                   g_left, should_quit>>

\* cv.wait(lock): reacquire the mutex before the predicate is evaluated again
GenRelock ==
    /\ g_pc = "relock"
    /\ mutex = "free"
    /\ mutex' = "gen"
    /\ g_pc' = "pred"
    /\ UNCHANGED <<plays, dspvars, bufvars, quit, waiting, thread, dev, cbvars, histvars, m_pc,
                   g_data, g_call, g_off, g_count, g_read, g_write, g_count_in, g_ret,
                   g_left, should_quit>>

\* if (!quit) { buffer.copy_in(data.data() + data.size() - left, left); }
GenAfter ==
    /\ g_pc = "after"
    /\ IF ~quit
       THEN /\ g_call' = 2
            /\ g_off' = buffer_size - g_left
            /\ g_count' = g_left
            /\ g_pc' = "in_snap"
       ELSE /\ UNCHANGED <<g_call, g_off, g_count>>
            /\ g_pc' = "unlock"
    /\ UNCHANGED <<plays, dspvars, bufvars, syncvars, cbvars, histvars, m_pc,
                   g_data, g_read, g_write, g_count_in, g_ret, g_left, should_quit>>

\* the end of the scope of `lock`
GenUnlock ==
    /\ g_pc = "unlock"
    /\ mutex' = "free"
    /\ g_pc' = "check_quit"
    /\ UNCHANGED <<plays, dspvars, bufvars, quit, waiting, thread, dev, cbvars, histvars, m_pc,
                   g_data, g_call, g_off, g_count, g_read, g_write, g_count_in, g_ret,
                   g_left, should_quit>>

\* should_quit = quit; while (!should_quit)
\* quit is a plain bool read here without the mutex; ~Audio may be writing it.
\* The read yields the value before or after that write, which is what the
\* interleaving of this step with DtorSetQuit gives.
GenCheckQuit ==
    /\ g_pc = "check_quit"
    /\ should_quit' = quit
    /\ g_pc' = IF quit THEN "exited" ELSE "make_sound"
    /\ UNCHANGED <<plays, dspvars, bufvars, syncvars, cbvars, histvars, m_pc,
                   g_data, g_call, g_off, g_count, g_read, g_write, g_count_in, g_ret,
                   g_left>>

(***************************************************************************)
(* audioCallback, invoked by the device thread while the device is open.   *)
(***************************************************************************)
\* count = len / sizeof(int16_t), with len the want.samples of Audio::start
CallbackCount == buffer_size

\* The store copy_in is writing while the generator is inside its std::copy
\* calls: the copies are not synchronised with copy_out, so a sample read
\* meanwhile is the old or the new one.
GenPending ==
    IF g_pc = "in_copy"
    THEN CopyInStore(samples, GenSrc, first, g_read, g_write, g_count)
    ELSE samples

\* the device thread calls audioCallback(userdata, stream, len); userdata is
\* the Audio and stream the device's buffer, so the null test does not return
CbInvoke(track) ==
    /\ cb_pc = "idle"
    /\ dev = "open"
    /\ track => ncallbacks < MaxCallbacks
    /\ ncallbacks' = IF track THEN ncallbacks + 1 ELSE ncallbacks
    /\ stream' = [i \in 0 .. CallbackCount - 1 |-> Junk]
    /\ cb_pc' = "out_snap"
    /\ UNCHANGED <<plays, dspvars, bufvars, syncvars, genvars, m_pc, nblocks, written, delivered,
                   calls, cb_read, cb_write, cb_count_out, cb_left>>

\* copy_out: size_t read = read_a; size_t write = write_a;
CbSnapshot ==
    /\ cb_pc = "out_snap"
    /\ cb_read' = read_a /\ cb_write' = write_a
    /\ cb_pc' = "out_copy"
    /\ UNCHANGED <<plays, dspvars, bufvars, syncvars, genvars, histvars, m_pc,
                   cb_count_out, cb_left, stream>>

\* copy_out: the branch on read < write and its std::copy calls
CbCopy ==
    /\ cb_pc = "out_copy"
    /\ \E torn \in SUBSET { j \in DOMAIN samples : GenPending[j] /= samples[j] } :
          LET seen == [j \in DOMAIN samples |->
                          IF j \in torn THEN GenPending[j] ELSE samples[j]]
          IN  stream' = CopyOutDest(seen, stream, cb_read, cb_write, CallbackCount)
    /\ cb_count_out' = CopyOutCount(cb_read, cb_write, CallbackCount, Size(samples))
    /\ cb_pc' = "out_pub"
    /\ UNCHANGED <<plays, dspvars, bufvars, syncvars, genvars, histvars, m_pc,
                   cb_read, cb_write, cb_left>>

\* copy_out: read_a = (read + count_out) % size; return count - count_out;
CbPublish(track) ==
    /\ cb_pc = "out_pub"
    /\ read_a' = CopyOutCursor(cb_read, cb_count_out, Size(samples))
    /\ cb_left' = CallbackCount - cb_count_out
    /\ delivered' = IF track THEN delivered \o Prefix(stream, cb_count_out)
                             ELSE delivered
    /\ cb_pc' = "notify"
    /\ UNCHANGED <<plays, dspvars, samples, write_a, first, syncvars, genvars, m_pc, nblocks,
                   ncallbacks, written, calls, cb_read, cb_write, cb_count_out, stream>>

\* a notify that takes the mutex first
CbNotifyLocked ==
    /\ cb_pc = "notify"
    /\ mutex = "free"
    /\ waiting' = FALSE
    /\ cb_pc' = "fill"
    /\ UNCHANGED <<plays, dspvars, bufvars, quit, mutex, thread, dev, genvars, histvars, m_pc,
                   cb_read, cb_write, cb_count_out, cb_left, stream>>

\* audio.notify(): cv.notify_one()
CbNotify ==
    /\ cb_pc = "notify"
    /\ waiting' = FALSE
    /\ cb_pc' = "fill"
    /\ UNCHANGED <<plays, dspvars, bufvars, quit, mutex, thread, dev, genvars, histvars, m_pc,
                   cb_read, cb_write, cb_count_out, cb_left, stream>>

\* if (left) std::fill(buffer + count - left, buffer + count, 0);
ZeroFill(buffer, count, left) ==
    IF left /= 0
    THEN [i \in DOMAIN buffer |-> IF i >= count - left THEN 0 ELSE buffer[i]]
    ELSE buffer

\* the last statement of audioCallback, and its return
CbFill ==
    /\ cb_pc = "fill"
    /\ stream' = ZeroFill(stream, CallbackCount, cb_left)
    /\ cb_pc' = "idle"
    /\ UNCHANGED <<plays, dspvars, bufvars, syncvars, genvars, histvars, m_pc,
                   cb_read, cb_write, cb_count_out, cb_left>>

(***************************************************************************)
(* main: createAudio (Audio::start), Audio::play, the event loop, ~Audio.  *)
(***************************************************************************)
\* Audio::start: SDL_OpenAudioDevice succeeds or returns 0; on failure
\* createAudio destroys the engine (no thread to join) and returns no engine
Start ==
    /\ m_pc = "start"
    /\ \E ok \in BOOLEAN :
          IF ok THEN dev' = "open" /\ m_pc' = "play"
                ELSE dev' = "failed" /\ m_pc' = "no_audio"
    /\ UNCHANGED <<plays, dspvars, bufvars, quit, mutex, waiting, thread, genvars, cbvars, histvars>>

\* Audio::play with the test of thread.joinable() left out
playUnguarded ==
    /\ thread' = "joinable" /\ g_pc' = "make_sound"
    /\ plays' = [calls |-> plays.calls + 1, threads |-> plays.threads + 1]

\* Audio::play: returns at once if the thread exists, else starts the generator
play ==
    IF thread = "joinable"
    THEN /\ UNCHANGED <<thread, g_pc>>
         /\ plays' = [plays EXCEPT !.calls = @ + 1]
    ELSE /\ thread' = "joinable" /\ g_pc' = "make_sound"
         /\ plays' = [calls |-> plays.calls + 1, threads |-> plays.threads + 1]

\* main: audio->play()
Play ==
    /\ m_pc = "play"
    /\ play
    /\ m_pc' = "loop"
    /\ UNCHANGED <<bufvars, quit, mutex, waiting, dev, cbvars, histvars, dspvars,
                   g_data, g_call, g_off, g_count, g_read, g_write, g_count_in, g_ret,
                   g_left, should_quit>>

\* a further call of Audio::play by the owner of the engine, before ~Audio
PlayAgain ==
    /\ m_pc = "loop"
    /\ plays.calls < MaxPlays
    /\ play
    /\ UNCHANGED <<bufvars, quit, mutex, waiting, dev, cbvars, histvars, m_pc,
                   dspvars, g_data, g_call, g_off, g_count, g_read, g_write, g_count_in, g_ret,
                   g_left, should_quit>>

\* main: audio->play() on the empty pointer createAudio returned; main does not
\* test it.  The behaviour is undefined: the process is killed by the access
\* through the null pointer, or goes on in a way the source does not determine.
PlayNoAudio ==
    /\ m_pc = "no_audio"
    /\ plays' = [plays EXCEPT !.calls = @ + 1]
    /\ \E outcome \in {"crashed", "undefined"} : m_pc' = outcome
    /\ UNCHANGED <<bufvars, syncvars, genvars, cbvars, histvars, dspvars>>

\* main's loop ends (SDL_QUIT or escape) and audio is destroyed
MainQuit ==
    /\ m_pc = "loop"
    /\ m_pc' = "dtor"
    /\ UNCHANGED <<plays, dspvars, bufvars, syncvars, genvars, cbvars, histvars>>

\* ~Audio: if (thread.joinable())
DtorCheck ==
    /\ m_pc = "dtor"
    /\ m_pc' = IF thread = "joinable" THEN "dtor_lock" ELSE "dtor_close"
    /\ UNCHANGED <<plays, dspvars, bufvars, syncvars, genvars, cbvars, histvars>>

\* ~Audio: std::lock_guard lock(mutex);
DtorLock ==
    /\ m_pc = "dtor_lock"
    /\ mutex = "free"
    /\ mutex' = "main"
    /\ m_pc' = "dtor_set"
    /\ UNCHANGED <<plays, dspvars, bufvars, quit, waiting, thread, dev, genvars, cbvars, histvars>>

\* ~Audio: quit = true;
DtorSetQuit ==
    /\ m_pc = "dtor_set"
    /\ quit' = TRUE
    /\ m_pc' = "dtor_unlock"
    /\ UNCHANGED <<plays, dspvars, bufvars, mutex, waiting, thread, dev, genvars, cbvars, histvars>>

\* ~Audio: the end of the scope of `lock`
DtorUnlock ==
    /\ m_pc = "dtor_unlock"
    /\ mutex' = "free"
    /\ m_pc' = "dtor_notify"
    /\ UNCHANGED <<plays, dspvars, bufvars, quit, waiting, thread, dev, genvars, cbvars, histvars>>

\* a teardown that does not signal the condition variable
DtorNoNotify ==
    /\ m_pc = "dtor_notify"
    /\ m_pc' = "dtor_join"
    /\ UNCHANGED <<plays, dspvars, bufvars, syncvars, genvars, cbvars, histvars>>

\* ~Audio: notify();
DtorNotify ==
    /\ m_pc = "dtor_notify"
    /\ waiting' = FALSE
    /\ m_pc' = "dtor_join"
    /\ UNCHANGED <<plays, dspvars, bufvars, quit, mutex, thread, dev, genvars, cbvars, histvars>>

\* ~Audio: thread.join();
DtorJoin ==
    /\ m_pc = "dtor_join"
    /\ g_pc = "exited"
    /\ thread' = "joined"
    /\ m_pc' = "dtor_close"
    /\ UNCHANGED <<plays, dspvars, bufvars, quit, mutex, waiting, dev, genvars, cbvars, histvars>>

\* ~Audio: SDL_CloseAudioDevice(dev), which returns once no callback is running
DtorClose ==
    /\ m_pc = "dtor_close"
    /\ cb_pc = "idle"
    /\ dev' = "closed"
    /\ m_pc' = "end"
    /\ UNCHANGED <<plays, dspvars, bufvars, quit, mutex, waiting, thread, genvars, cbvars, histvars>>

Generator(track) ==
    \/ MakeSound(track) \/ GenSnapshot \/ GenCopy \/ GenPublish(track)
    \/ GenLock \/ GenPred \/ GenBlock \/ GenWake \/ GenRelock
    \/ GenAfter \/ GenUnlock \/ GenCheckQuit

Callback(track) ==
    \/ CbSnapshot \/ CbCopy \/ CbPublish(track) \/ CbNotify \/ CbFill

Teardown ==
    \/ DtorCheck \/ DtorLock \/ DtorSetQuit \/ DtorUnlock \/ DtorNotify
    \/ DtorJoin \/ DtorClose

Next ==
    \/ Start \/ Play \/ PlayNoAudio \/ MainQuit \/ Teardown
    \/ Generator(TRUE) \/ GenSpuriousWake
    \/ CbInvoke(TRUE) \/ Callback(TRUE)

Spec == Init /\ [][Next]_vars

(***************************************************************************)
(* The same program running without bounds: sample identities are reused   *)
(* and the histories are left alone, so the state space stays finite.      *)
(* Threads that can run do run (weak fairness of each thread's steps) and  *)
(* a thread that asks for the mutex gets it if the mutex keeps being       *)
(* released (strong fairness of the lock steps).  A spurious wakeup, the   *)
(* end of main's loop and the device's decision to invoke the callback are *)
(* never forced in LiveSpec.  LiveSpecCb is the program whose device keeps *)
(* invoking the callback while it is open and whose condition variable     *)
(* never wakes spuriously: every wakeup there is caused by a notify.       *)
(***************************************************************************)
LiveNext ==
    \/ Start \/ Play \/ PlayNoAudio \/ MainQuit \/ Teardown
    \/ Generator(FALSE) \/ GenSpuriousWake
    \/ CbInvoke(FALSE) \/ Callback(FALSE)

LiveSpec ==
    /\ Init /\ [][LiveNext]_vars
    /\ WF_vars(Start \/ Play)
    /\ WF_vars(Teardown)
    /\ SF_vars(DtorLock)
    /\ WF_vars(Generator(FALSE))
    /\ SF_vars(GenLock \/ GenRelock)
    /\ WF_vars(Callback(FALSE))

\* The program of LiveNext with an owner that calls Audio::play repeatedly.
PlayNext == LiveNext \/ PlayAgain

PlaySpec == Init /\ [][PlayNext]_vars

(***************************************************************************)
(* The sequencer alone: a counter the sequencer can have reached, ticked   *)
(* with counts of every kind (nothing, a block, beats, the whole pattern   *)
(* and more).                                                              *)
(***************************************************************************)
SeqStarts == {0, 1, beat_length - 1, beat_length, pattern_length - 1}

SeqCounts == {0, buffer_size, beat_length - 1, beat_length, 4800, 2 * beat_length,
              pattern_length - buffer_size, pattern_length, pattern_length + 1}

SeqInit == AudioInit /\ SawToothInit /\ \E s \in SeqStarts : SequencerInit(s)

SeqTick(count) ==
    /\ Len(ticks.counts) < MaxTicks
    /\ SequencerTick(count)
    /\ UNCHANGED <<bufvars, syncvars, genvars, cbvars, histvars, m_pc, plays, sawvars>>

SeqNext == \E count \in SeqCounts : SeqTick(count)

SeqSpec == SeqInit /\ [][SeqNext]_vars

(***************************************************************************)
(* The oscillator alone: ticked with the notes of the pattern and blocks   *)
(* of several sizes while the tuning control is moved.                     *)
(***************************************************************************)
SawNotes == { pattern[i] : i \in 1 .. 8 }

SawCounts == {0, 1, buffer_size}

SawTick(note, count) ==
    /\ saw.n < MaxSawTicks
    /\ SawToothTick(note, count)
    /\ UNCHANGED <<bufvars, syncvars, genvars, cbvars, histvars, m_pc, plays, seqvars>>

\* Audio::tuning(a), a = 1, -1 or 0 as main passes it
SetTuning(a) ==
    /\ tuning_v' = 100 + a
    /\ UNCHANGED <<bufvars, syncvars, genvars, cbvars, histvars, m_pc, plays, seqvars,
                   tuning, last, wave, saw>>

SawNext ==
    \/ \E note \in SawNotes, count \in SawCounts : SawTick(note, count)
    \/ \E a \in {0 - 1, 0, 1} : SetTuning(a)

SawSpec == Init /\ [][SawNext]_vars

LiveNextCb ==
    \/ Start \/ Play \/ PlayNoAudio \/ MainQuit \/ Teardown
    \/ Generator(FALSE)
    \/ CbInvoke(FALSE) \/ Callback(FALSE)

LiveSpecCb ==
    /\ Init /\ [][LiveNextCb]_vars
    /\ WF_vars(Start \/ Play)
    /\ WF_vars(Teardown)
    /\ SF_vars(DtorLock)
    /\ WF_vars(Generator(FALSE))
    /\ SF_vars(GenLock \/ GenRelock)
    /\ WF_vars(Callback(FALSE))
    /\ WF_vars(CbInvoke(FALSE))

(***************************************************************************)
(* The CircularBuffer interface called sequentially: a buffer of any size  *)
(* up to MaxSize, copy_in and audioCallback (copy_out and the zero fill)   *)
(* called with any count up to MaxCount, each call running to completion.  *)
(* copy_in is offered the samples that follow the ones already accepted.   *)
(***************************************************************************)
\* largest CircularBuffer(size)
MaxSize == 4
\* largest count passed to copy_in and to the callback
MaxCount == 5
\* the calls stop once MaxTotal samples went in or came out
MaxTotal == 6
\* `calls` keeps the two most recent calls
Record(c) ==
    LET s == Append(calls, c)
    IN  IF Len(s) > 2 THEN Tail(s) ELSE s

BufInit ==
    /\ \E size \in 1 .. MaxSize : samples = NewSamples(size)
    /\ write_a = 0 /\ read_a = 0 /\ first = TRUE
    /\ quit = FALSE /\ mutex = "free" /\ waiting = FALSE
    /\ thread = "none" /\ dev = "none"
    /\ m_pc = "start"
    /\ g_pc = "none"
    /\ g_data = [i \in 0 .. buffer_size - 1 |-> 0]
    /\ g_call = 0 /\ g_off = 0 /\ g_count = 0
    /\ g_read = 0 /\ g_write = 0 /\ g_count_in = 0 /\ g_ret = 0 /\ g_left = 0
    /\ should_quit = FALSE
    /\ cb_pc = "idle"
    /\ cb_read = 0 /\ cb_write = 0 /\ cb_count_out = 0 /\ cb_left = 0
    /\ stream = [i \in 0 .. buffer_size - 1 |-> Junk]
    /\ nblocks = 0 /\ ncallbacks = 0
    /\ written = <<>> /\ delivered = <<>> /\ calls = <<>>
    /\ plays = [calls |-> 0, threads |-> 0]
    /\ SequencerInit(0) /\ SawToothInit

\* buffer.copy_in(src, count), as one step
BufCopyIn(count) ==
    LET size == Size(samples)
        n    == CopyInCount(first, read_a, write_a, count, size)
        src  == [i \in 0 .. count - 1 |-> Len(written) + i + 1]
    IN  /\ Len(written) + count <= MaxTotal
        /\ samples' = CopyInStore(samples, src, first, read_a, write_a, count)
        /\ first' = FALSE
        /\ write_a' = CopyInCursor(write_a, n, size)
        /\ written' = written \o Prefix(src, n)
        /\ calls' = Record([op |-> "copy_in", count |-> count, ret |-> count - n,
                            first |-> first, read |-> read_a, write |-> write_a,
                            wtotal |-> Len(written), rtotal |-> Len(delivered)])
        /\ UNCHANGED <<plays, dspvars, read_a, syncvars, genvars, cbvars, m_pc, nblocks, ncallbacks,
                       delivered>>

\* audioCallback(userdata, stream, count * sizeof(int16_t)), as one step
BufCallback(count) ==
    LET size == Size(samples)
        n    == CopyOutCount(read_a, write_a, count, size)
        dest == CopyOutDest(samples, [i \in 0 .. count - 1 |-> Junk],
                            read_a, write_a, count)
    IN  /\ Len(delivered) + count <= MaxTotal
        /\ read_a' = CopyOutCursor(read_a, n, size)
        /\ delivered' = delivered \o Prefix(dest, n)
        /\ cb_read' = read_a /\ cb_write' = write_a /\ cb_count_out' = n
        /\ cb_left' = count - n
        /\ stream' = ZeroFill(dest, count, count - n)
        /\ calls' = Record([op |-> "copy_out", count |-> count, ret |-> count - n,
                            dest |-> dest, read |-> read_a, write |-> write_a,
                            wtotal |-> Len(written), rtotal |-> Len(delivered)])
        /\ UNCHANGED <<plays, dspvars, samples, write_a, first, syncvars, genvars, cb_pc, m_pc,
                       nblocks, ncallbacks, written>>

BufNext == \E count \in 0 .. MaxCount : BufCopyIn(count) \/ BufCallback(count)

SpecBuf == BufInit /\ [][BufNext]_vars

(***************************************************************************)
(* Unwrapped cursors: totals of samples published by copy_in and copy_out. *)
(***************************************************************************)
TotalWritten == Len(written)
TotalRead    == Len(delivered)

\* C1: with capacity 2N and blocks of N samples the unwrapped cursors satisfy
\* R <= W <= R + C in every reachable state: the reader never passes the
\* writer and the writer never laps the reader by more than the capacity.
C1_CursorOrder ==
    /\ TotalRead <= TotalWritten
    /\ TotalWritten <= TotalRead + Size(samples)

\* C2: every generated block reaches the ring buffer completely and in order:
\* the follow-up copy_in made after the wait transfers the whole shortfall, and
\* the samples copied in are the generated ones, none skipped.
C2_BlocksWrittenCompletely ==
    /\ \A i \in 1 .. Len(written) : written[i] = i
    /\ (g_pc = "unlock" /\ g_call = 2) => g_ret = 0

(***************************************************************************)
(* The calls of the sequential interface the claims speak about.           *)
(***************************************************************************)
\* the most recent call, and the one before it
LastCall == calls[Len(calls)]
PrevCall == calls[Len(calls) - 1]

\* identities a .. a+n-1 as an array on 0 .. n-1
Ids(a, n) == [i \in 0 .. n - 1 |-> a + i]

\* the last two calls were copy_in(L) and then copy_out(L), with L <= capacity
WriteThenRead ==
    /\ Len(calls) >= 2
    /\ PrevCall.op = "copy_in" /\ LastCall.op = "copy_out"
    /\ PrevCall.count = LastCall.count
    /\ PrevCall.count <= Size(samples)

\* C3: capacity 2N, fresh buffer: copy_in(N) returns 0, the following
\* copy_out(N) returns the same N samples with shortfall 0, and has_space()
\* is true right afterwards.
C3_FreshWriteReadHasSpace ==
    ( /\ WriteThenRead
      /\ Size(samples) = 2 * buffer_size
      /\ PrevCall.count = buffer_size
      /\ PrevCall.first /\ PrevCall.rtotal = 0 ) =>
        /\ PrevCall.ret = 0
        /\ LastCall.ret = 0
        /\ LastCall.dest = Ids(1, buffer_size)
        /\ has_space

\* C4: on an empty buffer (fresh, or everything written has been read),
\* copy_in(L) followed by copy_out(L), L <= capacity, returns shortfall 0 twice
\* and delivers exactly the L samples written.
C4_WriteThenReadRoundTrip ==
    ( /\ WriteThenRead
      /\ PrevCall.wtotal = PrevCall.rtotal
      /\ (PrevCall.first /\ PrevCall.rtotal = 0) \/ PrevCall.wtotal > 0 ) =>
        /\ PrevCall.ret = 0
        /\ LastCall.ret = 0
        /\ LastCall.dest = Ids(PrevCall.wtotal + 1, LastCall.count)

\* space as the claim C5 states it: the writer ahead of or equal to the reader
\* has the space that wraps around to the reader
SpaceAsClaimed(read, write, size) ==
    IF read > write THEN read - write ELSE (size - write) + read

\* space as copy_in computes it: equal cursors leave no space
SpaceAsCoded(read, write, size) ==
    IF read > write THEN read - write
    ELSE IF read < write THEN (size - write) + read
    ELSE 0

\* the last call was a copy_in other than the first one
LaterCopyIn == Len(calls) >= 1 /\ LastCall.op = "copy_in" /\ ~LastCall.first

C7_UnderrunZeroFilled ==
    ( /\ Len(calls) >= 1
      /\ LastCall.op = "copy_out"
      /\ LastCall.wtotal >= LastCall.rtotal
      /\ LastCall.wtotal - LastCall.rtotal < LastCall.count ) =>
        LET c     == LastCall
            avail == c.wtotal - c.rtotal
        IN  /\ c.ret = c.count - avail
            /\ stream = [i \in 0 .. c.count - 1 |->
                            IF i < avail THEN c.rtotal + 1 + i ELSE 0]

(***************************************************************************)
(* The copies in progress in the concurrent program.                       *)
(***************************************************************************)
\* indices copy_in is writing: cursors snapshot taken, write_a not yet published
GenWriting ==
    IF g_pc = "in_copy"
    THEN CopyInRange(first, g_read, g_write, g_count, Size(samples))
    ELSE {}

\* indices copy_out is reading: cursors snapshot taken, read_a not yet published
CbReading ==
    IF cb_pc = "out_copy"
    THEN CopyOutRange(cb_read, cb_write, CallbackCount, Size(samples))
    ELSE {}

\* C8: while a copy_in and a copy_out are both in progress, the indices being
\* written and the indices being read do not overlap.
C8_RangesDisjoint == GenWriting \cap CbReading = {}

\* copy_in returned a shortfall to the generator loop
Shortfall == g_pc = "lock"

\* the follow-up copy_in has written everything that was pending
ShortfallWritten == g_pc = "unlock" /\ g_call = 2 /\ g_ret = 0

\* C6: whenever copy_in returns a shortfall and shutdown is not requested, the
\* generator eventually wakes and completes the write of the pending samples,
\* given that the callback keeps being invoked.
C6_ShortfallEventuallyWritten ==
    (Shortfall /\ ~quit) ~> (ShortfallWritten \/ quit)

\* C9: teardown of an engine whose generator thread runs sets quit while
\* holding the mutex, the generator then exits whatever it was doing so that
\* join returns, and the device is closed only after the generator ended.
C9_TeardownJoinsGenerator ==
    /\ [][quit' /= quit => (mutex = "main" /\ mutex' = "main")]_vars
    /\ (m_pc = "dtor_lock") ~> (g_pc = "exited" /\ thread = "joined")
    /\ [](dev = "closed" => g_pc \in {"none", "exited"})

\* teardown has finished for a generator that had been waiting for space
C9_Witness ==
    /\ m_pc = "end" /\ dev = "closed"
    /\ thread = "joined" /\ g_pc = "exited"
    /\ g_left /= 0 /\ should_quit

\* C10: an invoked callback can always take its next step, whatever the
\* generator and main are doing: it never waits for the mutex or anything else.
C10_CallbackNeverBlocks ==
    cb_pc /= "idle" => ENABLED Callback(TRUE)

\* the callback is about to notify while another thread holds the mutex
C10_Witness ==
    /\ cb_pc = "notify"
    /\ mutex /= "free"

(***************************************************************************)
(* C11: Audio::play is idempotent: however often it is called, at most one *)
(* generator thread is ever started, and a call made while the thread      *)
(* exists changes nothing of the engine.                                   *)
(***************************************************************************)
C11_PlayIdempotent ==
    /\ [](plays.threads <= 1)
    /\ [][(plays' /= plays /\ thread = "joinable") =>
            UNCHANGED <<bufvars, syncvars, genvars, cbvars>>]_vars

C11_Witness == plays.calls >= 2 /\ plays.threads = 1 /\ g_pc = "in_copy"

(***************************************************************************)
(* C12: when the audio device cannot be opened there is no engine, and     *)
(* Audio::play is never called: no generator thread is started and nothing *)
(* of the engine runs.                                                     *)
(***************************************************************************)
C12_NoPlayWithoutDevice ==
    dev = "failed" =>
        /\ plays.calls = 0 /\ plays.threads = 0
        /\ thread = "none" /\ g_pc = "none"

(***************************************************************************)
(* C13: both cursors are indices of the backing store, and for any count   *)
(* (larger than the capacity included, first write included) the indices   *)
(* copy_in writes and copy_out reads are indices of the backing store and  *)
(* the number of samples copied is at most count.                          *)
(***************************************************************************)
C13_CursorsAndRangesInBounds ==
    LET size  == Size(samples)
        Store == 0 .. size - 1
    IN  /\ read_a \in Store /\ write_a \in Store
        /\ \A count \in 0 .. MaxCount + 1 :
              /\ CopyInRange(first, read_a, write_a, count, size) \subseteq Store
              /\ CopyInCount(first, read_a, write_a, count, size) \in 0 .. count
              /\ CopyOutRange(read_a, write_a, count, size) \subseteq Store
              /\ CopyOutCount(read_a, write_a, count, size) \in 0 .. count

\* a first write of more samples than the store holds, followed by a read
C13_Witness ==
    /\ Len(calls) = 2
    /\ PrevCall.op = "copy_in" /\ PrevCall.first /\ PrevCall.count > Size(samples)
    /\ LastCall.op = "copy_out" /\ LastCall.count > Size(samples)

(***************************************************************************)
(* C14: after every tick the sequencer's counter is in [0, pattern_length) *)
(* and the pattern index the next tick uses is in [0, 8).                  *)
(***************************************************************************)
C14_CounterInPattern ==
    /\ sample \in 0 .. pattern_length - 1
    /\ sample \div beat_length \in 0 .. 7

\* number of ticks so far, and the counter after the first k of them
NTicks == Len(ticks.counts)
CounterAfter(k) == IF k < NTicks THEN ticks.before[k + 1] ELSE sample

\* a tick with a count beyond the pattern length has wrapped the counter
C14_Witness ==
    /\ NTicks > 0
    /\ ticks.counts[NTicks] > pattern_length
    /\ sample < ticks.before[NTicks]

(***************************************************************************)
(* C15: with 44100 samples per second and 552 beats per minute the beat    *)
(* length is 4800 samples and the pattern length 38400 samples; a tick at  *)
(* counter 0 returns 440 and a tick at counter 4800 returns 0.             *)
(***************************************************************************)
TickAtReturns(s, f) ==
    \A i \in 1 .. NTicks : ticks.before[i] = s => ticks.notes[i] = f

C15_LengthsAsClaimed ==
    /\ samples_per_sec = 44100 /\ bpm = 552
    /\ beat_length = 4800 /\ pattern_length = 38400
    /\ TickAtReturns(0, 4400) /\ TickAtReturns(4800, 0)

\* C15, with the lengths the integer division gives: the beat length is 4793
\* samples and the pattern length 38344; a tick at counter 0 returns 440 and a
\* tick at counter 4800, which lies in the second beat, returns 0.
C15_Lengths ==
    /\ samples_per_sec = 44100 /\ bpm = 552
    /\ beat_length = 4793 /\ pattern_length = 38344
    /\ TickAtReturns(0, 4400) /\ TickAtReturns(4800, 0)

\* ticks at counter 0 and at counter 4800 have happened
C15_Witness ==
    /\ \E i \in 1 .. NTicks : ticks.before[i] = 0 /\ ticks.notes[i] = 4400
    /\ \E i \in 1 .. NTicks : ticks.before[i] = 4800 /\ ticks.notes[i] = 0

(***************************************************************************)
(* C16: ticks whose counts add up to pattern_length bring the counter back *)
(* to where it was, and the same counts repeated from there return the     *)
(* same notes; the note returned depends on the counter only.              *)
(***************************************************************************)
\* the sum of counts j+1 .. k
RECURSIVE CountSum(_, _)
CountSum(j, k) == IF k <= j THEN 0 ELSE ticks.counts[k] + CountSum(j, k - 1)

C16_Periodic ==
    /\ \A j \in 0 .. NTicks : \A k \in j + 1 .. NTicks :
          CountSum(j, k) = pattern_length =>
             /\ CounterAfter(k) = CounterAfter(j)
             /\ \A i \in 1 .. NTicks - k :
                   (\A m \in 1 .. i : ticks.counts[k + m] = ticks.counts[j + m])
                       => ticks.notes[k + i] = ticks.notes[j + i]
    /\ \A a, b \in 1 .. NTicks :
          ticks.before[a] = ticks.before[b] => ticks.notes[a] = ticks.notes[b]

\* two ticks that add up to the pattern length and return different notes,
\* and the same two ticks again
C16_Witness ==
    /\ NTicks = 4
    /\ ticks.counts[1] \notin {0, pattern_length}
    /\ ticks.counts[1] + ticks.counts[2] = pattern_length
    /\ ticks.counts[3] = ticks.counts[1] /\ ticks.counts[4] = ticks.counts[2]
    /\ ticks.notes[1] /= ticks.notes[2]

(***************************************************************************)
(* C17: tick(count) returns the pattern entry of the counter as it was     *)
(* before the call and then advances the counter by count modulo           *)
(* pattern_length; a block across a beat boundary gets the note of its     *)
(* first sample.                                                           *)
(***************************************************************************)
C17_NoteBeforeAdvance ==
    \A i \in 1 .. NTicks :
        /\ ticks.notes[i] = pattern[(ticks.before[i] \div beat_length) + 1]
        /\ CounterAfter(i) = (ticks.before[i] + ticks.counts[i]) % pattern_length

\* the last tick's block starts on the last sample of the first beat
C17_Witness ==
    /\ NTicks > 0
    /\ ticks.before[NTicks] = beat_length - 1
    /\ ticks.counts[NTicks] = buffer_size
    /\ sample = beat_length - 1 + buffer_size
    /\ ticks.notes[NTicks] = 4400
    /\ pattern[(sample - 1) \div beat_length + 1] = 0

(***************************************************************************)
(* C18: a tick with note 0 writes one value, that of last, to every sample *)
(* of the block and leaves last and tuning as they were, whatever the      *)
(* tuning control says.                                                    *)
(***************************************************************************)
C18_SilentBlockHolds ==
    (saw.n > 0 /\ saw.note = 0) =>
        /\ DOMAIN wave = 0 .. saw.count - 1
        /\ \A i \in DOMAIN wave : wave[i] = SawSample(saw.last)
        /\ last = saw.last
        /\ tuning = saw.tuning

\* a silent block after a sounding one, with the tuning control off centre
C18_Witness ==
    /\ saw.n = 2 /\ saw.note = 0 /\ saw.count = buffer_size
    /\ last /= 0 /\ wave[0] /= 0
    /\ tuning /= 1000 /\ tuning_v /= 100

(***************************************************************************)
(* C19: the samples copy_out delivers, callback after callback, are always *)
(* a prefix of the samples make_sound generated, in generation order:      *)
(* nothing is delivered twice, out of order, or in place of a generated    *)
(* sample.  Generated sample k has identity k; zero-filled tails are not   *)
(* part of delivered.                                                      *)
(***************************************************************************)
C19_StreamIntegrity ==
    /\ Len(delivered) <= nblocks * buffer_size
    /\ \A i \in 1 .. Len(delivered) : delivered[i] = i

====
